---- MODULE Spec2Model ----
(***************************************************************************)
(* The factorial scalar function of datafusion/functions/src/math/         *)
(* factorial.rs: the FACTORIALS lookup table, the per-element closure of   *)
(* `factorial`, and the evaluation of a column by iterator + collect, as a *)
(* state machine whose steps are the per-element iterations of any number  *)
(* of evaluations running side by side.                                    *)
(*                                                                         *)
(* Numbers.  TLC's integers are 32 bits wide, the function's are 64: an    *)
(* i64 result and a usize index are held as their decimal digits, most     *)
(* significant first, without leading zeros (<<1,2,0>> is 120).  Input     *)
(* elements are TLC integers (the model's inputs all fit).                 *)
(* Option<T>: None is <<>>, Some(v) is <<v>>.                              *)
(***************************************************************************)
EXTENDS Integers, Sequences, FiniteSets, TLC

VARIABLES calls, table, signature

vars == <<calls, table, signature>>

---------------------------------------------------------------------------
(* Bounds of the model *)

\* evaluations running side by side (Spec)
NProcs == 2
\* longest column of a concurrent evaluation (Spec)
ConcLen == 2
\* longest column of SpecKernel
KernelLen == 1
\* SpecKernel's elements range over -NegSpan..MaxVal
NegSpan == 3
MaxVal == 23
\* longest column of SpecColumn
ColLen == 3

---------------------------------------------------------------------------
(* Decimal arithmetic on digit sequences *)

None == <<>>
Some(v) == <<v>>

Front(s) == SubSeq(s, 1, Len(s) - 1)

RECURSIVE NatToDigits(_)
NatToDigits(n) == IF n < 10 THEN <<n>> ELSE NatToDigits(n \div 10) \o <<n % 10>>

RECURSIVE DigitsToNat(_)
DigitsToNat(d) == IF d = <<>> THEN 0 ELSE 10 * DigitsToNat(Front(d)) + d[Len(d)]

RECURSIVE StripZeros(_)
StripZeros(d) == IF Len(d) > 1 /\ d[1] = 0 THEN StripZeros(Tail(d)) ELSE d

RECURSIVE LexLess(_, _)
LexLess(x, y) ==
    IF x = <<>> THEN FALSE
    ELSE IF x[1] # y[1] THEN x[1] < y[1]
    ELSE LexLess(Tail(x), Tail(y))

BigLess(x, y) ==
    IF Len(x) # Len(y) THEN Len(x) < Len(y) ELSE LexLess(x, y)

BigLeq(x, y) == x = y \/ BigLess(x, y)

RECURSIVE MulCarry(_, _, _)
MulCarry(x, k, carry) ==
    IF x = <<>> THEN (IF carry = 0 THEN <<>> ELSE NatToDigits(carry))
    ELSE LET p == x[Len(x)] * k + carry
         IN  MulCarry(Front(x), k, p \div 10) \o <<p % 10>>

\* x * k for a digit sequence x and a small natural k
BigMulSmall(x, k) == StripZeros(MulCarry(x, k, 0))

RECURSIVE SubBorrow(_, _)
SubBorrow(x, m) ==
    IF m = 0 THEN x
    ELSE LET t == x[Len(x)] - (m % 10)
             b == IF t < 0 THEN 1 ELSE 0
         IN  SubBorrow(Front(x), (m \div 10) + b) \o <<t + 10 * b>>

\* x - m for a digit sequence x and a small natural m <= x
BigSubSmall(x, m) == StripZeros(SubBorrow(x, m))

\* n! by repeated multiplication (the closed form the table is compared with)
RECURSIVE BigFact(_)
BigFact(n) == IF n = 0 THEN <<1>> ELSE BigMulSmall(BigFact(n - 1), n)

---------------------------------------------------------------------------
(* The integer types *)

\* i64::MAX = 2^63 - 1 = 9223372036854775807
I64Max == <<9,2,2,3,3,7,2,0,3,6,8,5,4,7,7,5,8,0,7>>

\* 2^64 = 18446744073709551616, the modulus of a 64-bit usize
TwoPow64 == <<1,8,4,4,6,7,4,4,0,7,3,7,0,9,5,5,1,6,1,6>>

\* `a as usize` for an i64 a: two's complement reinterpretation
AsUsize(a) == IF a >= 0 THEN NatToDigits(a) ELSE BigSubSmall(TwoPow64, -a)

DigitChar(d) == <<"0", "1", "2", "3", "4", "5", "6", "7", "8", "9">>[d + 1]

\* `{a}` in format!: the decimal text of an i64, one character per element
Display(a) ==
    LET ds == NatToDigits(IF a < 0 THEN -a ELSE a)
        cs == [i \in 1..Len(ds) |-> DigitChar(ds[i])]
    IN  IF a < 0 THEN <<"-">> \o cs ELSE cs

CharDigit(c) == CHOOSE d \in 0..9 : DigitChar(d) = c

\* the integer a decimal text denotes (the inverse of Display)
ParseI64(cs) ==
    LET neg == cs # <<>> /\ cs[1] = "-"
        body == IF neg THEN Tail(cs) ELSE cs
        n == DigitsToNat([i \in 1..Len(body) |-> CharDigit(body[i])])
    IN  IF neg THEN -n ELSE n

---------------------------------------------------------------------------
(* The lookup table and the function descriptor *)

\* BOUND one too low: the second arm written `a <= 19`
BoundTooLow == 20 - 1

\* the largest argument served from the table: `a <= 20`
BOUND == 20

\* FACTORIALS with two digits of 13! transposed (6227028000 for 6227020800)
FACTORIALS_Typo13 ==
    << <<1>>, <<1>>, <<2>>, <<6>>, <<2,4>>, <<1,2,0>>, <<7,2,0>>, <<5,0,4,0>>,
       <<4,0,3,2,0>>, <<3,6,2,8,8,0>>, <<3,6,2,8,8,0,0>>, <<3,9,9,1,6,8,0,0>>,
       <<4,7,9,0,0,1,6,0,0>>,
       <<6,2,2,7,0,2,8,0,0,0>>,
       <<8,7,1,7,8,2,9,1,2,0,0>>,
       <<1,3,0,7,6,7,4,3,6,8,0,0,0>>,
       <<2,0,9,2,2,7,8,9,8,8,8,0,0,0>>,
       <<3,5,5,6,8,7,4,2,8,0,9,6,0,0,0>>,
       <<6,4,0,2,3,7,3,7,0,5,7,2,8,0,0,0>>,
       <<1,2,1,6,4,5,1,0,0,4,0,8,8,3,2,0,0,0>>,
       <<2,4,3,2,9,0,2,0,0,8,1,7,6,6,4,0,0,0,0>> >>

\* pub const FACTORIALS: [i64; 21]; entry i of the array is element i + 1 here
FACTORIALS ==
    << <<1>>,                                       \* 0!
       <<1>>,                                       \* 1!
       <<2>>,                                       \* 2!
       <<6>>,                                       \* 3!
       <<2,4>>,                                     \* 4!
       <<1,2,0>>,                                   \* 5!
       <<7,2,0>>,                                   \* 6!
       <<5,0,4,0>>,                                 \* 7!
       <<4,0,3,2,0>>,                               \* 8!
       <<3,6,2,8,8,0>>,                             \* 9!
       <<3,6,2,8,8,0,0>>,                           \* 10!
       <<3,9,9,1,6,8,0,0>>,                         \* 11!
       <<4,7,9,0,0,1,6,0,0>>,                       \* 12!
       <<6,2,2,7,0,2,0,8,0,0>>,                     \* 13!
       <<8,7,1,7,8,2,9,1,2,0,0>>,                   \* 14!
       <<1,3,0,7,6,7,4,3,6,8,0,0,0>>,               \* 15!
       <<2,0,9,2,2,7,8,9,8,8,8,0,0,0>>,             \* 16!
       <<3,5,5,6,8,7,4,2,8,0,9,6,0,0,0>>,           \* 17!
       <<6,4,0,2,3,7,3,7,0,5,7,2,8,0,0,0>>,         \* 18!
       <<1,2,1,6,4,5,1,0,0,4,0,8,8,3,2,0,0,0>>,     \* 19!
       <<2,4,3,2,9,0,2,0,0,8,1,7,6,6,4,0,0,0,0>> >> \* 20!

\* Signature::uniform(1, vec![Int64], Volatility::Immutable)
FactorialFunc_new ==
    [type_signature |-> [variant |-> "Uniform", arg_count |-> 1,
                         valid_types |-> <<"Int64">>],
     volatility |-> "Immutable"]

---------------------------------------------------------------------------
(* Errors and results *)

NoErr == [kind |-> "", text |-> <<>>]

\* arrow_datafusion_err!(ArrowError::ComputeError(format!("Overflow happened on FACTORIAL({a})")))
OverflowErr(a) ==
    [kind |-> "ArrowError::ComputeError",
     text |-> <<"Overflow happened on FACTORIAL(">> \o Display(a) \o <<")">>]

\* exec_err!("Unsupported data type {other:?} for function factorial.")
UnsupportedErr(other) ==
    [kind |-> "Execution",
     text |-> <<"Unsupported data type ", other, " for function factorial.">>]

\* a Rust panic: an index past the end of a slice
PanicErr == [kind |-> "panic", text |-> <<"index out of bounds">>]

\* t[idx] for a usize idx (digits): Some(entry), or None where Rust panics
TableGet(t, idx) ==
    IF BigLess(idx, NatToDigits(Len(t))) THEN Some(t[DigitsToNat(idx) + 1]) ELSE None

\* The arms of the closure mapped over the elements.  `index` is the table
\* index the arm reads, if any.

\* None => Ok(None)
NullArm == [tag |-> "Ok", val |-> None, err |-> NoErr, index |-> None]

\* Some(a) if a < 2 => Ok(Some(1i64))
UnitArm == [tag |-> "Ok", val |-> Some(<<1>>), err |-> NoErr, index |-> None]

\* Some(a) if a <= 20 => Ok(Some(FACTORIALS[a as usize]))
LookupArm(v) ==
    LET i == AsUsize(v)
        e == TableGet(table, i)
    IN  IF e = None
        THEN [tag |-> "Panic", val |-> None, err |-> PanicErr, index |-> Some(i)]
        ELSE [tag |-> "Ok", val |-> Some(e[1]), err |-> NoErr, index |-> Some(i)]

\* Some(a) => Err(ComputeError("Overflow happened on FACTORIAL({a})"))
OverflowArm(v) ==
    [tag |-> "Err", val |-> None, err |-> OverflowErr(v), index |-> None]

\* kernel with the guard of the first arm written `0 <= a && a < 2`
kernelNonNegUnit(a) ==
    IF a = None THEN NullArm
    ELSE IF 0 <= a[1] /\ a[1] < 2 THEN UnitArm
    ELSE IF a[1] <= BOUND THEN LookupArm(a[1])
    ELSE OverflowArm(a[1])

\* kernel with the guard of the second arm written `a <= 21`
kernelOffByOne(a) ==
    IF a = None THEN NullArm
    ELSE IF a[1] < 2 THEN UnitArm
    ELSE IF a[1] <= BOUND + 1 THEN LookupArm(a[1])
    ELSE OverflowArm(a[1])

\* kernel over `a.unwrap_or_default()`: a null slot evaluated as 0
kernelNullAsZero(a) ==
    IF a = None THEN UnitArm
    ELSE IF a[1] < 2 THEN UnitArm
    ELSE IF a[1] <= BOUND THEN LookupArm(a[1])
    ELSE OverflowArm(a[1])

\* kernel without the first arm: every value up to 20 goes to the table
kernelNoUnitArm(a) ==
    IF a = None THEN NullArm
    ELSE IF a[1] <= BOUND THEN LookupArm(a[1])
    ELSE OverflowArm(a[1])

\* The closure: `a` is an Option<i64>; the arms are tried in order.
kernel(a) ==
    IF a = None THEN NullArm
    ELSE IF a[1] < 2 THEN UnitArm
    ELSE IF a[1] <= BOUND THEN LookupArm(a[1])
    ELSE OverflowArm(a[1])

---------------------------------------------------------------------------
(* Inputs *)

Column(t, d) == [data_type |-> t, data |-> d]

SeqsUpTo(S, n) == UNION {[1..k -> S] : k \in 0..n}

Options(S) == {None} \cup {Some(v) : v \in S}

Int64Columns(S, n) == {Column("Int64", d) : d \in SeqsUpTo(Options(S), n)}

\* columns of other types; a Utf8 element is a one-character string, held
\* as its code point
OtherColumns ==
    {Column("Utf8", <<Some(97), Some(98)>>),
     Column("Int32", <<Some(5), None>>),
     Column("Utf8", <<>>)}

ConcValues == {4, 21}
\* inputs of Spec: one column, an Int64 column of values (one of them with a
\* null slot) or a Utf8 column
ConcArgs ==
    {<<Column("Int64", d)>> : d \in SeqsUpTo({Some(v) : v \in ConcValues}, ConcLen)}
    \cup {<<Column("Int64", <<None, Some(4)>>)>>, <<Column("Utf8", <<Some(97)>>)>>}

ExtremeValues == {-2147483647, -1000, 1000, 2147483647}
KernelValues == ((0 - NegSpan)..MaxVal) \cup ExtremeValues
\* inputs of SpecKernel: one Int64 column
KernelArgs == {<<c>> : c \in Int64Columns(KernelValues, KernelLen)}

ColValues == {-3, 0, 1, 2, 4, 20, 21, 22}
\* inputs of SpecColumn: any number of arguments of any type
ColArgs ==
    {<<>>}
    \cup {<<c>> : c \in Int64Columns(ColValues, ColLen) \cup OtherColumns}
    \cup {<<c, d>> :
            c \in {Column("Int64", <<Some(4), None>>), Column("Utf8", <<Some(97)>>)},
            d \in {Column("Int64", <<Some(21)>>), Column("Utf8", <<Some(98)>>)}}

---------------------------------------------------------------------------
(* One evaluation: factorial(args), driven by collect over the mapped iterator *)

NoResult == [tag |-> "None", array |-> <<>>, err |-> NoErr]

\* a call about to be made with arguments a
Pending(a) ==
    [pc |-> "idle", args |-> a, idx |-> 1, out |-> <<>>, reads |-> 0,
     lookups |-> <<>>, result |-> NoResult]

\* Invoke without the match on the data type: args[0] is taken for an
\* Int64Array whatever its type
InvokeNoTypeCheck(p) ==
    /\ calls[p].pc = "idle"
    /\ LET c == calls[p] IN
       calls' = [calls EXCEPT ![p] =
          IF c.args = <<>> THEN
              [c EXCEPT !.pc = "done",
                        !.result = [tag |-> "Panic", array |-> <<>>, err |-> PanicErr]]
          ELSE [c EXCEPT !.pc = "iter"]]
    /\ UNCHANGED <<table, signature>>

\* invoke_with_args -> factorial: `match args[0].data_type()`
Invoke(p) ==
    /\ calls[p].pc = "idle"
    /\ LET c == calls[p] IN
       calls' = [calls EXCEPT ![p] =
          IF c.args = <<>> THEN
              [c EXCEPT !.pc = "done",
                        !.result = [tag |-> "Panic", array |-> <<>>, err |-> PanicErr]]
          ELSE IF c.args[1].data_type = "Int64" THEN
              [c EXCEPT !.pc = "iter"]
          ELSE
              [c EXCEPT !.pc = "done",
                        !.result = [tag |-> "Err", array |-> <<>>,
                                    err |-> UnsupportedErr(c.args[1].data_type)]]]
    /\ UNCHANGED <<table, signature>>

\* Collected putting each value in front of the earlier ones
CollectedFront(out, val) == <<val>> \o out

\* collect appends the value of an Ok item to what it has collected
Collected(out, val) == Append(out, val)

\* Aborted handing back what was collected before the error
AbortedPartial(c, r) == [tag |-> r.tag, array |-> c.out, err |-> r.err]

\* collect stops at the first Err (or the panic unwinds): what was collected
\* is dropped and only the error is returned
Aborted(c, r) == [tag |-> r.tag, array |-> <<>>, err |-> r.err]

\* the evaluation c after its next element: the iterator yields it, the
\* closure maps it, collect keeps the value or stops at the error
Advance(c) ==
    LET r == kernel(c.args[1].data[c.idx])
        looked == IF r.index = None THEN c.lookups
                  ELSE Append(c.lookups, [pos |-> c.idx, index |-> r.index[1]])
    IN  IF r.tag = "Ok" THEN
            [c EXCEPT !.idx = c.idx + 1, !.out = Collected(c.out, r.val),
                      !.reads = c.reads + 1, !.lookups = looked]
        ELSE
            [c EXCEPT !.pc = "done", !.out = <<>>,
                      !.reads = c.reads + 1, !.lookups = looked,
                      !.result = Aborted(c, r)]

\* Step collecting into one buffer all running evaluations share
StepSharedBuffer(p) ==
    /\ calls[p].pc = "iter"
    /\ calls[p].idx <= Len(calls[p].args[1].data)
    /\ LET n == Advance(calls[p]) IN
       calls' = [q \in DOMAIN calls |->
                   IF q = p THEN n
                   ELSE IF calls[q].pc = "iter" /\ n.pc = "iter"
                        THEN [calls[q] EXCEPT !.out = n.out]
                        ELSE calls[q]]
    /\ UNCHANGED <<table, signature>>

Step(p) ==
    /\ calls[p].pc = "iter"
    /\ calls[p].idx <= Len(calls[p].args[1].data)
    /\ calls' = [calls EXCEPT ![p] = Advance(calls[p])]
    /\ UNCHANGED <<table, signature>>

\* the iterator is exhausted: collect returns Ok(array), wrapped in an Arc
Finish(p) ==
    /\ calls[p].pc = "iter"
    /\ calls[p].idx > Len(calls[p].args[1].data)
    /\ LET c == calls[p] IN
       calls' = [calls EXCEPT ![p] =
          [c EXCEPT !.pc = "done", !.out = <<>>,
                    !.result = [tag |-> "Ok", array |-> c.out, err |-> NoErr]]]
    /\ UNCHANGED <<table, signature>>

\* collect over the mapped iterator, from element i on, run to its end
RECURSIVE CollectFrom(_, _, _)
CollectFrom(data, i, acc) ==
    IF i > Len(data) THEN [tag |-> "Ok", array |-> acc, err |-> NoErr]
    ELSE LET r == kernel(data[i])
         IN  IF r.tag = "Ok" THEN CollectFrom(data, i + 1, Append(acc, r.val))
             ELSE [tag |-> r.tag, array |-> <<>>, err |-> r.err]

\* factorial(args) run alone, from call to return
factorial(args) ==
    IF args = <<>> THEN [tag |-> "Panic", array |-> <<>>, err |-> PanicErr]
    ELSE IF args[1].data_type = "Int64" THEN CollectFrom(args[1].data, 1, <<>>)
    ELSE [tag |-> "Err", array |-> <<>>, err |-> UnsupportedErr(args[1].data_type)]

Next ==
    \/ \E p \in DOMAIN calls : Invoke(p)
    \/ \E p \in DOMAIN calls : Step(p)
    \/ \E p \in DOMAIN calls : Finish(p)

Shared == table = FACTORIALS /\ signature = FactorialFunc_new

Init ==
    /\ Shared
    /\ calls \in [1..NProcs -> {Pending(a) : a \in ConcArgs}]

InitKernel ==
    /\ Shared
    /\ calls \in [1..1 -> {Pending(a) : a \in KernelArgs}]

InitColumn ==
    /\ Shared
    /\ calls \in [1..1 -> {Pending(a) : a \in ColArgs}]

\* evaluations side by side, on independent batches
Spec == Init /\ [][Next]_vars
\* one evaluation of a short column over a wide range of elements
SpecKernel == InitKernel /\ [][Next]_vars
\* one evaluation of a longer column, and of calls of any shape
SpecColumn == InitColumn /\ [][Next]_vars

---------------------------------------------------------------------------
(* Properties *)

Procs == DOMAIN calls

IsDone(p) == calls[p].pc = "done"

\* the call reached the iteration over an Int64 column
OnInt64(p) ==
    /\ calls[p].pc # "idle"
    /\ calls[p].args # <<>>
    /\ calls[p].args[1].data_type = "Int64"

Data(p) == calls[p].args[1].data

\* the output slots produced so far, or the returned array
Produced(p) == IF IsDone(p) THEN calls[p].result.array ELSE calls[p].out

Succeeded(p) == IsDone(p) /\ calls[p].result.tag = "Ok"

Failed(p) == IsDone(p) /\ calls[p].result.tag # "Ok"

IsValue(p, i) == Data(p)[i] # None

\* the positions of the non-null elements above 20
Overflowing(p) == {i \in 1..Len(Data(p)) : IsValue(p, i) /\ Data(p)[i][1] > BOUND}

Lowest(S) == CHOOSE i \in S : \A j \in S : i <= j

\* the value an overflow message names: the text between "FACTORIAL(" and ")"
NamedValue(err) == ParseI64(SubSeq(err.text, 2, Len(err.text) - 1))

IsOverflowErrOf(err, n) ==
    /\ err.kind = "ArrowError::ComputeError"
    /\ Len(err.text) >= 3
    /\ err.text[1] = "Overflow happened on FACTORIAL("
    /\ err.text[Len(err.text)] = ")"
    /\ NamedValue(err) = n

Mentions(err, word) == \E i \in 1..Len(err.text) : err.text[i] = word

\* C1: for 2 <= n <= 20 a non-null element n yields FACTORIALS[n], which is
\* n times the result for n - 1 and is n!; the table starts at 1 and each
\* entry is the one before times its index.
C1_TableIsFactorial ==
    /\ table[1] = <<1>>
    /\ \A i \in 1..BOUND : table[i + 1] = BigMulSmall(table[i], i)
    /\ \A p \in Procs : OnInt64(p) =>
         /\ \A i \in 1..Len(Produced(p)) :
              (IsValue(p, i) /\ Data(p)[i][1] \in 2..BOUND) =>
                 LET n == Data(p)[i][1] IN
                 /\ Produced(p)[i] = Some(table[n + 1])
                 /\ Produced(p)[i] = Some(BigMulSmall(kernel(Some(n - 1)).val[1], n))
                 /\ Produced(p)[i] = Some(BigFact(n))
         /\ (IsDone(p) /\ Overflowing(p) = {}) =>
              Succeeded(p) /\ Len(Produced(p)) = Len(Data(p))

C1_Witness ==
    \E p \in Procs :
       /\ Succeeded(p)
       /\ Data(p) = <<Some(13)>>
       /\ Produced(p) = <<Some(BigFact(13))>>

\* C2: a non-null element below 2 (0, 1, any negative value) yields 1 and is
\* never what an evaluation fails on.
C2_BelowTwoIsOne ==
    \A p \in Procs : OnInt64(p) =>
       /\ \A i \in 1..Len(Produced(p)) :
            (IsValue(p, i) /\ Data(p)[i][1] < 2) => Produced(p)[i] = Some(<<1>>)
       /\ Failed(p) =>
            /\ calls[p].reads \in 1..Len(Data(p))
            /\ IsValue(p, calls[p].reads)
            /\ Data(p)[calls[p].reads][1] >= 2
       /\ (IsDone(p) /\ \A i \in 1..Len(Data(p)) :
                           IsValue(p, i) /\ Data(p)[i][1] < 2) =>
            Succeeded(p) /\ Len(Produced(p)) = Len(Data(p))

C2_Witness ==
    \E p \in Procs :
       /\ Succeeded(p)
       /\ Data(p) = <<Some(-3)>>
       /\ Produced(p) = <<Some(<<1>>)>>

\* C3: a non-null element n above 20 never gets an output value; reading
\* it ends the evaluation with the overflow error whose text names n.
C3_AboveBoundIsOverflowError ==
    \A p \in Procs : OnInt64(p) =>
       \A i \in Overflowing(p) :
          /\ Len(Produced(p)) < i
          /\ ~Succeeded(p)
          /\ calls[p].reads >= i =>
               /\ calls[p].reads = i
               /\ IsDone(p)
               /\ calls[p].result.tag = "Err"
               /\ calls[p].result.array = <<>>
               /\ calls[p].result.err = OverflowErr(Data(p)[i][1])
               /\ IsOverflowErrOf(calls[p].result.err, Data(p)[i][1])

C3_Witness ==
    \E p \in Procs :
       /\ IsDone(p)
       /\ Data(p) = <<Some(21)>>
       /\ calls[p].result.tag = "Err"
       /\ calls[p].result.err.text
            = <<"Overflow happened on FACTORIAL(", "2", "1", ")">>

\* C4: a column with elements above 20 evaluates to an error alone, no
\* output column, and the error names the element above 20 of lowest index.
C4_FirstOverflowAbortsColumn ==
    \A p \in Procs : (OnInt64(p) /\ IsDone(p) /\ Overflowing(p) # {}) =>
       LET f == Lowest(Overflowing(p)) IN
       /\ calls[p].result.tag = "Err"
       /\ calls[p].result.array = <<>>
       /\ calls[p].out = <<>>
       /\ calls[p].reads = f
       /\ IsOverflowErrOf(calls[p].result.err, Data(p)[f][1])

C4_Witness ==
    \E p \in Procs :
       /\ OnInt64(p)
       /\ IsDone(p)
       /\ Data(p) = <<Some(4), Some(22), Some(21)>>
       /\ calls[p].result.tag = "Err"
       /\ calls[p].result.array = <<>>
       /\ NamedValue(calls[p].result.err) = 22

\* C5: on success output slot i is null exactly when input slot i is null;
\* no evaluation fails on a null slot, and no table read belongs to one.
C5_NullsPropagate ==
    \A p \in Procs : OnInt64(p) =>
       /\ \A i \in 1..Len(Produced(p)) :
            (Produced(p)[i] = None) <=> (Data(p)[i] = None)
       /\ Succeeded(p) => Len(Produced(p)) = Len(Data(p))
       /\ Failed(p) => IsValue(p, calls[p].reads)
       /\ \A k \in 1..Len(calls[p].lookups) : IsValue(p, calls[p].lookups[k].pos)
       /\ (IsDone(p) /\ \A i \in 1..Len(Data(p)) : Data(p)[i] = None) =>
            Succeeded(p)

C5_Witness ==
    \E p \in Procs :
       /\ OnInt64(p)
       /\ Succeeded(p)
       /\ Data(p) = <<None, Some(4), None>>
       /\ Produced(p) = <<None, Some(<<2, 4>>), None>>
       /\ Len(calls[p].lookups) = 1

\* C6: on success the output has the input's length and output slot i is
\* the closure's value for input slot i alone.
C6_PositionsAlign ==
    \A p \in Procs : OnInt64(p) =>
       /\ Succeeded(p) => Len(Produced(p)) = Len(Data(p))
       /\ Len(Produced(p)) <= Len(Data(p))
       /\ \A i \in 1..Len(Produced(p)) :
            /\ kernel(Data(p)[i]).tag = "Ok"
            /\ Produced(p)[i] = kernel(Data(p)[i]).val

C6_Witness ==
    \E p \in Procs :
       /\ OnInt64(p)
       /\ Succeeded(p)
       /\ Data(p) = <<Some(20), Some(0), Some(4)>>
       /\ Produced(p) = <<Some(BigFact(20)), Some(<<1>>), Some(<<2, 4>>)>>

\* the arguments fit the declared signature: arg_count arguments, each of
\* one of the valid types
MatchesSignature(args) ==
    /\ Len(args) = signature.type_signature.arg_count
    /\ \A i \in 1..Len(args) :
         \E k \in 1..Len(signature.type_signature.valid_types) :
            args[i].data_type = signature.type_signature.valid_types[k]

\* the position (from 0) of the first argument of a type that is not valid;
\* 0 when the count alone is wrong
Offending(args) ==
    LET bad == {i \in 1..Len(args) : ~MatchesSignature(<<args[i]>>)}
    IN  IF bad = {} THEN 0 ELSE Lowest(bad) - 1

Representable(n) ==
    \/ n < 2
    \/ BigLeq(BigFact(IF n > BOUND + 1 THEN BOUND + 1 ELSE n), I64Max)

\* C8: every table entry 0!..20! is in 1..2^63 - 1, the table ends at BOUND,
\* and 21! = 21 * table[20] is above 2^63 - 1: BOUND is the largest argument
\* whose factorial an i64 holds, and an evaluation succeeds exactly when the
\* factorial of each of its elements is one.
C8_BoundIsOverflowBoundary ==
    /\ Len(table) = BOUND + 1
    /\ \A i \in 0..BOUND :
         BigLeq(<<1>>, table[i + 1]) /\ BigLeq(table[i + 1], I64Max)
    /\ BigLess(I64Max, BigMulSmall(table[BOUND + 1], BOUND + 1))
    /\ BigLeq(BigFact(BOUND), I64Max)
    /\ BigLess(I64Max, BigFact(BOUND + 1))
    /\ \A p \in Procs : (OnInt64(p) /\ IsDone(p)) =>
         (Succeeded(p) <=>
            \A i \in 1..Len(Data(p)) : IsValue(p, i) => Representable(Data(p)[i][1]))

C8_Witness ==
    \E p \in Procs :
       /\ Succeeded(p)
       /\ Data(p) = <<Some(BOUND)>>
       /\ Produced(p)[1][1] = table[BOUND + 1]
       /\ BigLess(I64Max, BigMulSmall(Produced(p)[1][1], BOUND + 1))

\* C9: whatever the interleaving of the evaluations' steps, each returns
\* what factorial returns on its arguments run alone, what it has collected
\* so far is what it alone has computed, and the table and the signature
\* stay as constructed.
C9_EvaluationsIndependent ==
    /\ table = FACTORIALS
    /\ signature = FactorialFunc_new
    /\ \A p \in Procs :
         /\ IsDone(p) => calls[p].result = factorial(calls[p].args)
         /\ calls[p].pc = "iter" =>
              /\ Len(calls[p].out) = calls[p].idx - 1
              /\ calls[p].reads = calls[p].idx - 1
              /\ \A i \in 1..Len(calls[p].out) :
                   calls[p].out[i] = kernel(Data(p)[i]).val
         /\ calls[p].pc = "idle" => calls[p].result = NoResult /\ calls[p].out = <<>>

C9_Witness ==
    \E p, q \in Procs :
       /\ p # q
       /\ Succeeded(p)
       /\ Len(Produced(p)) = 2
       /\ calls[q].pc = "iter"
       /\ calls[q].idx = 2
       /\ calls[q].args # calls[p].args

\* C10: every read of the table uses an index in 2..20, the one of the
\* element at that position, and no evaluation of an Int64 column ends in
\* an out-of-bounds panic.
C10_TableIndexInRange ==
    \A p \in Procs : OnInt64(p) =>
       /\ calls[p].result.tag # "Panic"
       /\ \A k \in 1..Len(calls[p].lookups) :
            LET l == calls[p].lookups[k] IN
            /\ BigLeq(<<2>>, l.index)
            /\ BigLeq(l.index, NatToDigits(BOUND))
            /\ BigLess(l.index, NatToDigits(Len(table)))
            /\ IsValue(p, l.pos)
            /\ l.index = NatToDigits(Data(p)[l.pos][1])

C10_Witness ==
    \E p \in Procs :
       /\ Succeeded(p)
       /\ Data(p) = <<Some(2)>>
       /\ calls[p].lookups = <<[pos |-> 1, index |-> <<2>>]>>

====
